---- MODULE Spec2Model ----
(***************************************************************************)
(* s3m: sqlite3 connections that share one reentrant lock per database     *)
(* file (src/s3m.py).  The model follows Connection.__init__, __enter__,   *)
(* __exit__, close and the `with self:` wrappers of execute/commit/...,    *)
(* with threading.RLock, threading.Lock and the sqlite3 connection         *)
(* modelled by what the code relies on.                                    *)
(***************************************************************************)
EXTENDS Integers, Sequences, FiniteSets, TLC

\* ------------------------------------------------------------------ bounds
\* n_connections of the test (25 there): threads of the scripted run.
NConnections == 2
\* Deepest nesting of user `with conn:` blocks a thread opens.
MaxDepth == 2
\* Calls are drawn only while the thread holds its RLock fewer times than this.
MaxHold == 3

\* ------------------------------------------------------- values and inputs
AllThreads == 1..NConnections
FreeThreads == {1, 2}
Sessions == 1..NConnections
FreeSessions == {1, 2}

NoThread == 0
NoSession == 0
NoLock == 0
FakeLock == -1
LockIds == 1..NConnections

MemoryPath == ":memory:"
FilePath == "s3m_test.db"
BadPath == "/nonexistent-path/a/b/c/test.db"
Paths == {MemoryPath, FilePath}
\* Every path a constructor is called with: a key the registry could get.
Keys == Paths \cup {BadPath}

\* lock_timeout values: the default -1, and a positive bound.
LockTimeouts == {-1, 1}
\* isolation_level values: None (autocommit) and '' (legacy implicit BEGIN).
IsolationLevels == {"None", "legacy"}

\* The keyword options every connection of a run is opened with.
Options == [lock_transactions : BOOLEAN, lock_timeout : LockTimeouts,
            isolation_level : IsolationLevels]

\* Statements handed to execute(); INSERT carries the inserted value.
Stmt(k, v) == [sql |-> k, val |-> v]
\* INVALID stands for a statement sqlite3 rejects (OperationalError).
FreeStmts == {Stmt(k, 0) : k \in {"BEGIN", "COMMIT", "UPDATE", "INVALID"}}
Op(m, st) == [method |-> m, stmt |-> st]
NoStmt == Stmt("", 0)
\* What a wrapped method hands to sqlite3: execute/executemany/executescript a
\* statement, commit(), rollback(), fetchone/fetchmany/fetchall.
FreeOps == {Op("execute", st) : st \in FreeStmts}
             \cup {Op(m, NoStmt) : m \in {"commit", "rollback", "fetchall"}}

\* insert_func's queries (src/tests/s3m_test.py:31-36).
Script == << Stmt("CREATE", 0), Stmt("BEGIN", 0), Stmt("INSERT", 1),
             Stmt("INSERT", 2), Stmt("INSERT", 3), Stmt("COMMIT", 0) >>

NoExc == [thread |-> NoThread, type |-> "None", connection |-> NoSession]
Exc(t, ty, s) == [thread |-> t, type |-> ty, connection |-> s]

VARIABLES
  DICT_LOCK,         \* thread holding the registry mutex, or NoThread
  CONNECTION_LOCKS,  \* path -> lock id, NoLock where the dict has no key
  rlock,             \* lock id -> [owner, count] of a threading.RLock
  conns,             \* session -> the Connection object and its sqlite3 handle
  opts,              \* keyword options of the run
  pc,                \* thread -> where it is
  cur,               \* thread -> the call in progress: session, kind, exception in flight
  scopes,            \* thread -> stack of sessions whose `with` block is open
  exc,               \* the exception the last step raised to its caller, if any
  table,             \* committed rows <<session, value>> of the file's table a
  pending,           \* session -> rows of its uncommitted transaction
  writer,            \* session holding the file's write lock, or NoSession
  prog               \* thread -> the statements it still has to run (scripted)

vars == << DICT_LOCK, CONNECTION_LOCKS, rlock, conns, opts, pc, cur, scopes,
           exc, table, pending, writer, prog >>

NoConn == [st |-> "none", path |-> "", lock |-> NoLock,
           was_in_transaction |-> FALSE, in_transaction |-> FALSE,
           creator |-> NoThread]
NoCur == [conn |-> NoSession, kind |-> "", raised |-> "None"]
InCall(s, k) == [conn |-> s, kind |-> k, raised |-> "None"]
Unlocked == [owner |-> NoThread, count |-> 0]

InitCommon ==
  /\ DICT_LOCK = NoThread
  /\ CONNECTION_LOCKS = [p \in Keys |-> NoLock]
  /\ rlock = [l \in LockIds |-> Unlocked]
  /\ conns = [s \in Sessions |-> NoConn]
  /\ pc = [t \in AllThreads |-> "idle"]
  /\ cur = [t \in AllThreads |-> NoCur]
  /\ scopes = [t \in AllThreads |-> << >>]
  /\ exc = NoExc
  /\ table = << >>
  /\ pending = [s \in Sessions |-> << >>]
  /\ writer = NoSession

Init ==
  /\ InitCommon
  /\ opts \in Options
  /\ prog = [t \in AllThreads |-> << >>]


\* ------------------------------------------------------------ the locks
\* threading.RLock: free, or owned by one thread a number of times.
RLockAvailable(l, t) == rlock[l].owner \in {NoThread, t}

RLockAcquired(l, t) == [rlock EXCEPT ![l] = [owner |-> t, count |-> @.count + 1]]

RLockOwned(l, t) == rlock[l].owner = t /\ rlock[l].count > 0

RLockReleased(l, t) ==
  [rlock EXCEPT ![l] = IF @.count = 1 THEN Unlocked
                       ELSE [owner |-> t, count |-> @.count - 1]]

\* self.lock.acquire(timeout=...) returns True: FakeLock always, an RLock when
\* it is free or owned by the calling thread.
AcquireSucceeds(l, t) == IF l = FakeLock THEN TRUE ELSE RLockAvailable(l, t)

AfterAcquire(l, t) == IF l = FakeLock THEN rlock ELSE RLockAcquired(l, t)

\* self.lock.release() returns: FakeLock always; an RLock raises RuntimeError
\* unless the calling thread owns it.
ReleaseSucceeds(l, t) == IF l = FakeLock THEN TRUE ELSE RLockOwned(l, t)

AfterRelease(l, t) ==
  IF l = FakeLock THEN rlock
  ELSE IF RLockOwned(l, t) THEN RLockReleased(l, t) ELSE rlock

\* acquire(timeout=x) on an RLock raises ValueError for a negative x other
\* than -1; FakeLock.acquire takes anything.
TimeoutRejected(l, x) == l # FakeLock /\ x < 0 /\ x # -1

\* acquire(timeout=x) gives up (returns False) only for x >= 0.
TimeoutBounded(x) == x >= 0

\* (a variant of __init__ that reads and fills the registry without DICT_LOCK)
DictLockIgnored == TRUE

DictLockAvailable == DICT_LOCK = NoThread

UsedLocks == {CONNECTION_LOCKS[p] : p \in DOMAIN CONNECTION_LOCKS}
               \cup {conns[s].lock : s \in Sessions}

\* threading.RLock(): an object distinct from every lock in use.
NewRLock == CHOOSE l \in LockIds : l \notin UsedLocks

\* ---------------------------------------------------------- __init__
\* (a variant of __init__ without the ':memory:' case)
IsMemoryNever(path) == FALSE

IsMemory(path) == path = MemoryPath

\* (a variant of sqlite3.connect that opens every path)
ConnectNeverRaises(path) == FALSE

\* sqlite3.connect(path) raises for a path it cannot open.
ConnectRaises(path) == path = BadPath

\* Connection.__init__ up to the registry: a failed sqlite3.connect leaves no
\* object; ':memory:' gets a FakeLock and is done; a file goes on to DICT_LOCK.
Connect(t, s, path) ==
  /\ pc[t] = "idle"
  /\ conns[s].st = "none"
  /\ IF ConnectRaises(path)
     THEN /\ exc' = Exc(t, "OperationalError", NoSession)
          /\ UNCHANGED << conns, pc, cur >>
     ELSE /\ exc' = NoExc
          /\ LET c == [NoConn EXCEPT !.path = path, !.creator = t]
             IN IF IsMemory(path)
                THEN /\ conns' = [conns EXCEPT ![s] =
                                    [c EXCEPT !.st = "open", !.lock = FakeLock]]
                     /\ UNCHANGED << pc, cur >>
                ELSE /\ conns' = [conns EXCEPT ![s] = [c EXCEPT !.st = "init"]]
                     /\ pc' = [pc EXCEPT ![t] = "dict_lock"]
                     /\ cur' = [cur EXCEPT ![t] = InCall(s, "init")]
  /\ UNCHANGED << DICT_LOCK, CONNECTION_LOCKS, rlock, opts, scopes, table,
                  pending, writer, prog >>

\* `with DICT_LOCK:` entered, and self.lock = CONNECTION_LOCKS.get(self.path).
DictGet(t) ==
  /\ pc[t] = "dict_lock"
  /\ DictLockAvailable
  /\ DICT_LOCK' = t
  /\ LET s == cur[t].conn
     IN conns' = [conns EXCEPT ![s].lock = CONNECTION_LOCKS[conns[s].path]]
  /\ pc' = [pc EXCEPT ![t] = "dict_set"]
  /\ exc' = NoExc
  /\ UNCHANGED << CONNECTION_LOCKS, rlock, opts, cur, scopes, table,
                  pending, writer, prog >>

\* (a variant of __init__ that returns with DICT_LOCK still held)
DictSetKeeping(t) ==
  /\ pc[t] = "dict_set"
  /\ LET s == cur[t].conn
         l == IF conns[s].lock = NoLock THEN NewRLock ELSE conns[s].lock
     IN /\ conns' = [conns EXCEPT ![s].lock = l, ![s].st = "open"]
        /\ CONNECTION_LOCKS' =
             IF conns[s].lock = NoLock
             THEN [CONNECTION_LOCKS EXCEPT ![conns[s].path] = l]
             ELSE CONNECTION_LOCKS
  /\ pc' = [pc EXCEPT ![t] = "idle"]
  /\ cur' = [cur EXCEPT ![t] = NoCur]
  /\ exc' = NoExc
  /\ UNCHANGED << DICT_LOCK, rlock, opts, scopes, table, pending, writer, prog >>

\* The rest of the `with DICT_LOCK:` block: a new RLock is made and stored when
\* the lookup found none; the block is left, DICT_LOCK released.
DictSet(t) ==
  /\ pc[t] = "dict_set"
  /\ LET s == cur[t].conn
         l == IF conns[s].lock = NoLock THEN NewRLock ELSE conns[s].lock
     IN /\ conns' = [conns EXCEPT ![s].lock = l, ![s].st = "open"]
        /\ CONNECTION_LOCKS' =
             IF conns[s].lock = NoLock
             THEN [CONNECTION_LOCKS EXCEPT ![conns[s].path] = l]
             ELSE CONNECTION_LOCKS
  /\ DICT_LOCK' = NoThread
  /\ pc' = [pc EXCEPT ![t] = "idle"]
  /\ cur' = [cur EXCEPT ![t] = NoCur]
  /\ exc' = NoExc
  /\ UNCHANGED << rlock, opts, scopes, table, pending, writer, prog >>

\* ------------------------------------------------ the sqlite3 connection
\* What one call into the sqlite3 handle of session s leaves behind:
\* in_transaction of the handle, its uncommitted rows, the file's write lock,
\* the committed rows, and the exception type raised ("None" when it returns).
Engine(tx, pend, wr, tab, ty) ==
  [in_transaction |-> tx, pending |-> pend, writer |-> wr, table |-> tab,
   raised |-> ty]

EngineSame(s, ty) ==
  Engine(conns[s].in_transaction, pending[s], writer, table, ty)

OnFile(s) == ~IsMemory(conns[s].path)

\* Another connection to the same file holds its write lock.
Busy(s) == OnFile(s) /\ writer \notin {NoSession, s}

Freed(s) == IF writer = s THEN NoSession ELSE writer

Rows(s, pend) == [i \in 1..Len(pend) |-> << s, pend[i] >>]

EngineCommit(s) ==
  Engine(FALSE, << >>, Freed(s),
         IF OnFile(s) THEN table \o Rows(s, pending[s]) ELSE table, "None")

EngineRollback(s) == Engine(FALSE, << >>, Freed(s), table, "None")

\* A statement that writes (CREATE, INSERT, UPDATE): under the legacy
\* isolation level a DML statement outside a transaction first begins one.
EngineWrite(s, stmt) ==
  LET implicit == /\ opts.isolation_level = "legacy"
                  /\ stmt.sql \in {"INSERT", "UPDATE"}
      tx == conns[s].in_transaction \/ implicit
      row == IF stmt.sql = "INSERT" THEN << stmt.val >> ELSE << >>
  IN IF Busy(s)
     THEN Engine(tx, pending[s], writer, table, "OperationalError")
     ELSE IF tx
          THEN Engine(TRUE, pending[s] \o row,
                      IF OnFile(s) THEN s ELSE writer, table, "None")
          ELSE Engine(FALSE, pending[s], writer,
                      IF OnFile(s) THEN table \o Rows(s, row) ELSE table, "None")

EngineExecute(s, stmt) ==
  CASE stmt.sql = "BEGIN" ->
         IF conns[s].in_transaction THEN EngineSame(s, "OperationalError")
         ELSE Engine(TRUE, pending[s], writer, table, "None")
    [] stmt.sql = "COMMIT" ->
         IF conns[s].in_transaction THEN EngineCommit(s)
         ELSE EngineSame(s, "OperationalError")
    [] stmt.sql = "ROLLBACK" ->
         IF conns[s].in_transaction THEN EngineRollback(s)
         ELSE EngineSame(s, "OperationalError")
    [] stmt.sql \in {"CREATE", "INSERT", "UPDATE"} -> EngineWrite(s, stmt)
    [] stmt.sql = "INVALID" -> EngineSame(s, "OperationalError")
    [] OTHER -> EngineSame(s, "None")

\* The sqlite3 call made between __enter__ and __exit__ by thread t.
EngineCall(s, op) ==
  IF conns[s].st = "closed" THEN EngineSame(s, "ProgrammingError")
  ELSE CASE op.method = "execute" -> EngineExecute(s, op.stmt)
         [] op.method = "commit" ->
              IF conns[s].in_transaction THEN EngineCommit(s)
              ELSE EngineSame(s, "None")
         [] op.method = "rollback" ->
              IF conns[s].in_transaction THEN EngineRollback(s)
              ELSE EngineSame(s, "None")
         [] OTHER -> EngineSame(s, "None")

\* (a variant of the handle whose in_transaction can be read after close)
InTransactionNeverRaises(s) == FALSE

\* self.connection.in_transaction raises ProgrammingError on a closed handle.
InTransactionRaises(s) == conns[s].st = "closed"

\* ------------------------------------------------ __enter__ and __exit__
LockTransactions(s) == opts.lock_transactions

LockTimeout(s) == opts.lock_timeout

\* (a variant of the test that forgets the policy and the transaction: the
\* lock is taken on every entry)
NeedsAcquireAlways(s) == TRUE

\* The test of __enter__: the lock is taken unless a transaction is open and
\* transactions are locked.
NeedsAcquire(s) == ~conns[s].in_transaction \/ ~LockTransactions(s)

\* (a variant of the decision that forgets the transaction: always release)
ShouldReleaseAlways(s) == TRUE

\* (a variant of the decision that forgets the lock_transactions policy)
ShouldReleaseUnlessOpen(s) ==
  IF InTransactionRaises(s) THEN TRUE ELSE ~conns[s].in_transaction

\* (a variant of the decision without the except clause: on a closed handle
\* nothing is released)
ShouldReleaseOpenOnly(s) ==
  IF InTransactionRaises(s) THEN FALSE
  ELSE IF ~LockTransactions(s) THEN TRUE
       ELSE ~conns[s].in_transaction

\* The decision of __exit__: in_transaction counts as False on a closed handle.
ShouldRelease(s) ==
  LET in_transaction == IF InTransactionRaises(s) THEN FALSE
                        ELSE conns[s].in_transaction
  IN IF ~LockTransactions(s) THEN TRUE
     ELSE (conns[s].was_in_transaction /\ ~in_transaction) \/ ~in_transaction

\* The last line of __enter__, and what follows its return: the body of a
\* user's `with conn:` block, or the sqlite3 call of a wrapped method.
Entered(t, s, kind) ==
  /\ conns' = [conns EXCEPT ![s].was_in_transaction = conns[s].in_transaction]
  /\ exc' = NoExc
  /\ IF kind = "with"
     THEN /\ scopes' = [scopes EXCEPT ![t] = Append(@, s)]
          /\ pc' = [pc EXCEPT ![t] = "idle"]
          /\ cur' = [cur EXCEPT ![t] = NoCur]
     ELSE /\ scopes' = scopes
          /\ pc' = [pc EXCEPT ![t] = "body"]
          /\ cur' = [cur EXCEPT ![t] = InCall(s, kind)]

\* An exception leaves the call; a scripted thread (insert_func) has no
\* handler and ends with it.
Raised(t, ty, s) ==
  /\ exc' = Exc(t, ty, s)
  /\ pc' = [pc EXCEPT ![t] = "idle"]
  /\ cur' = [cur EXCEPT ![t] = NoCur]
  /\ prog' = [prog EXCEPT ![t] = << >>]

HoldsBelow(t, s) ==
  IF conns[s].lock = FakeLock THEN TRUE
  ELSE rlock[conns[s].lock].count < MaxHold

\* Thread t calls a wrapped method (kind "method": execute, executemany,
\* executescript, commit, rollback, fetch*) on session s, or enters `with s:`
\* (kind "with"); __enter__ runs up to its acquire.
Call(t, s, kind) ==
  /\ pc[t] = "idle"
  /\ conns[s].st \in {"open", "closed"}
  /\ HoldsBelow(t, s)
  /\ kind = "with" => Len(scopes[t]) < MaxDepth
  /\ IF InTransactionRaises(s)
     THEN /\ Raised(t, "ProgrammingError", NoSession)
          /\ UNCHANGED << conns, scopes >>
     ELSE IF NeedsAcquire(s)
     THEN /\ pc' = [pc EXCEPT ![t] = "acquire"]
          /\ cur' = [cur EXCEPT ![t] = InCall(s, kind)]
          /\ exc' = NoExc
          /\ UNCHANGED << conns, scopes, prog >>
     ELSE /\ Entered(t, s, kind)
          /\ prog' = prog
  /\ UNCHANGED << DICT_LOCK, CONNECTION_LOCKS, rlock, opts, table, pending, writer >>

\* self.lock.acquire(timeout=self.lock_timeout) returns True (or raises
\* ValueError), and __enter__ finishes.
Acquire(t) ==
  /\ pc[t] = "acquire"
  /\ LET s == cur[t].conn
         l == conns[s].lock
     IN IF TimeoutRejected(l, LockTimeout(s))
        THEN /\ Raised(t, "ValueError", NoSession)
             /\ UNCHANGED << rlock, conns, scopes >>
        ELSE /\ AcquireSucceeds(l, t)
             /\ rlock' = AfterAcquire(l, t)
             /\ IF InTransactionRaises(s)
                THEN /\ Raised(t, "ProgrammingError", NoSession)
                     /\ UNCHANGED << conns, scopes >>
                ELSE /\ Entered(t, s, cur[t].kind)
                     /\ prog' = prog
  /\ UNCHANGED << DICT_LOCK, CONNECTION_LOCKS, opts, table, pending, writer >>

\* (a variant of __enter__ that does not look at what acquire returned)
TimeoutIgnored(t) ==
  /\ pc[t] = "acquire"
  /\ LET s == cur[t].conn
         l == conns[s].lock
     IN /\ ~TimeoutRejected(l, LockTimeout(s))
        /\ TimeoutBounded(LockTimeout(s))
        /\ ~AcquireSucceeds(l, t)
        /\ Entered(t, s, cur[t].kind)
  /\ UNCHANGED << DICT_LOCK, CONNECTION_LOCKS, rlock, opts, table, pending,
                  writer, prog >>

\* self.lock.acquire(timeout=self.lock_timeout) returns False: the lock stayed
\* with another thread for the whole bounded wait; LockTimeoutError(self).
Timeout(t) ==
  /\ pc[t] = "acquire"
  /\ LET s == cur[t].conn
         l == conns[s].lock
     IN /\ ~TimeoutRejected(l, LockTimeout(s))
        /\ TimeoutBounded(LockTimeout(s))
        /\ ~AcquireSucceeds(l, t)
        /\ Raised(t, "LockTimeoutError", s)
  /\ UNCHANGED << DICT_LOCK, CONNECTION_LOCKS, rlock, conns, opts, scopes,
                  table, pending, writer >>

\* The sqlite3 call inside `with self:`, with what the caller passed (op);
\* whatever it raises, __exit__ is next.
Body(t, op) ==
  /\ pc[t] = "body"
  /\ LET s == cur[t].conn
         r == EngineCall(s, op)
     IN /\ conns' = [conns EXCEPT ![s].in_transaction = r.in_transaction]
        /\ pending' = [pending EXCEPT ![s] = r.pending]
        /\ writer' = r.writer
        /\ table' = r.table
        /\ cur' = [cur EXCEPT ![t].raised = r.raised]
  /\ pc' = [pc EXCEPT ![t] = "exit"]
  /\ exc' = NoExc
  /\ prog' = IF prog[t] # << >> THEN [prog EXCEPT ![t] = Tail(@)] ELSE prog
  /\ UNCHANGED << DICT_LOCK, CONNECTION_LOCKS, rlock, opts, scopes >>

\* (a variant of the wrappers without `with`: __exit__ is skipped when the
\* sqlite3 call raised)
ExitLockUnlessRaised(t, s) ==
  IF cur[t].raised # "None" THEN rlock
  ELSE IF ShouldRelease(s) THEN AfterRelease(conns[s].lock, t) ELSE rlock

\* __exit__ of session s run by thread t: the lock after it, and whether
\* release() raised RuntimeError.
ExitLock(t, s) ==
  IF ShouldRelease(s) THEN AfterRelease(conns[s].lock, t) ELSE rlock

ExitRaises(t, s) == ShouldRelease(s) /\ ~ReleaseSucceeds(conns[s].lock, t)

\* __exit__ at the end of a wrapped method; then the method returns, or the
\* exception of the sqlite3 call (or of release) goes on to the caller.
Exit(t) ==
  /\ pc[t] = "exit"
  /\ LET s == cur[t].conn
         ty == IF ExitRaises(t, s) THEN "RuntimeError" ELSE cur[t].raised
     IN /\ rlock' = ExitLock(t, s)
        /\ IF ty = "None"
           THEN /\ exc' = NoExc
                /\ pc' = [pc EXCEPT ![t] = "idle"]
                /\ cur' = [cur EXCEPT ![t] = NoCur]
                /\ prog' = prog
           ELSE Raised(t, ty, NoSession)
  /\ UNCHANGED << DICT_LOCK, CONNECTION_LOCKS, conns, opts, scopes, table,
                  pending, writer >>

\* __exit__ at the end of the innermost open `with conn:` block of thread t.
LeaveScope(t) ==
  /\ pc[t] = "idle"
  /\ scopes[t] # << >>
  /\ LET s == scopes[t][Len(scopes[t])]
     IN /\ rlock' = ExitLock(t, s)
        /\ exc' = IF ExitRaises(t, s) THEN Exc(t, "RuntimeError", NoSession)
                  ELSE NoExc
  /\ scopes' = [scopes EXCEPT ![t] = SubSeq(@, 1, Len(@) - 1)]
  /\ UNCHANGED << DICT_LOCK, CONNECTION_LOCKS, conns, opts, pc, cur, table,
                  pending, writer, prog >>

\* (a variant of close that gives the lock back when the closing thread
\* holds it)
CloseReleasing(t, s) ==
  /\ pc[t] = "idle"
  /\ conns[s].st \in {"open", "closed"}
  /\ IF conns[s].st = "closed"
     THEN /\ exc' = NoExc
          /\ UNCHANGED << conns, pending, writer, rlock >>
     ELSE /\ conns' = [conns EXCEPT ![s].st = "closed",
                                    ![s].in_transaction = FALSE]
          /\ pending' = [pending EXCEPT ![s] = << >>]
          /\ writer' = Freed(s)
          /\ rlock' = AfterRelease(conns[s].lock, t)
          /\ exc' = NoExc
  /\ UNCHANGED << DICT_LOCK, CONNECTION_LOCKS, opts, pc, cur, scopes, table, prog >>

\* close(): nothing when already closed; else the cursor and the handle are
\* closed (sqlite3 rolls an open transaction back) and closed is set.
Close(t, s) ==
  /\ pc[t] = "idle"
  /\ conns[s].st \in {"open", "closed"}
  /\ IF conns[s].st = "closed"
     THEN /\ exc' = NoExc
          /\ UNCHANGED << conns, pending, writer >>
     ELSE /\ conns' = [conns EXCEPT ![s].st = "closed",
                                    ![s].in_transaction = FALSE]
          /\ pending' = [pending EXCEPT ![s] = << >>]
          /\ writer' = Freed(s)
          /\ exc' = NoExc
  /\ UNCHANGED << DICT_LOCK, CONNECTION_LOCKS, rlock, opts, pc, cur, scopes,
                  table, prog >>

\* ------------------------------------------------------- specifications
\* Connections opened with check_same_thread=False, as the tests open them:
\* any thread calls any wrapped method on any connection.
Next ==
  \E t \in FreeThreads :
    \/ \E s \in FreeSessions, path \in Paths \cup {BadPath} : Connect(t, s, path)
    \/ DictGet(t)
    \/ DictSet(t)
    \/ \E s \in FreeSessions : Call(t, s, "method")
    \/ Acquire(t)
    \/ Timeout(t)
    \/ \E op \in FreeOps : Body(t, op)
    \/ Exit(t)
    \/ \E s \in FreeSessions : Close(t, s)

Spec == Init /\ [][Next]_vars

\* Every connection is used by the thread that opened it and by no other (the
\* check_same_thread default), each thread opening one: wrapped methods and
\* `with conn:` blocks.
NextOwn ==
  \E t \in FreeThreads :
    \/ \E path \in Paths : Connect(t, t, path)
    \/ DictGet(t)
    \/ DictSet(t)
    \/ \E kind \in {"method", "with"} : Call(t, t, kind)
    \/ Acquire(t)
    \/ Timeout(t)
    \/ \E op \in FreeOps : Body(t, op)
    \/ Exit(t)
    \/ LeaveScope(t)
    \/ Close(t, t)

SpecOwn == Init /\ [][NextOwn]_vars

\* test_s3m: every thread runs insert_func on a connection of its own to the
\* same file, with the options connect_db and the defaults give.
TestOptions == [lock_transactions |-> TRUE, lock_timeout |-> -1,
                isolation_level |-> "None"]

InitTest ==
  /\ InitCommon
  /\ opts = TestOptions
  /\ prog = [t \in AllThreads |-> Script]

NextTest ==
  \E t \in AllThreads :
    \/ prog[t] = Script /\ Connect(t, t, FilePath)
    \/ DictGet(t)
    \/ DictSet(t)
    \/ prog[t] # << >> /\ Call(t, t, "method")
    \/ Acquire(t)
    \/ Body(t, Op("execute", Head(prog[t])))
    \/ Exit(t)

SpecTest == InitTest /\ [][NextTest]_vars

\* ------------------------------------------------------------- claims
\* Every scripted thread has ended: its script is run, or an exception ended it.
Joined == \A t \in AllThreads : pc[t] = "idle" /\ prog[t] = << >>

\* The rows 3k+1..3k+3 of the table are the values 1, 2, 3 of one session.
Contiguous(k) ==
  \E s \in Sessions :
    \A i \in 1..3 : table[3 * k + i] = << s, i >>

\* C1: in test_s3m (lock_transactions on, one thread per connection to the same
\* file, each running CREATE TABLE IF NOT EXISTS, BEGIN, three INSERTs, COMMIT
\* through execute) at most one connection has an open transaction at any
\* time, no other thread is inside a statement while it is open, and after the
\* threads have joined the table holds 3 rows per connection, each
\* connection's rows 1, 2, 3 contiguous.
C1_TransactionsSerialized ==
  /\ \A s1, s2 \in Sessions :
       conns[s1].in_transaction /\ conns[s2].in_transaction => s1 = s2
  /\ \A s \in Sessions, t \in AllThreads :
       conns[s].in_transaction /\ t # s => pc[t] \notin {"body", "exit"}
  /\ Joined =>
       /\ Len(table) = 3 * NConnections
       /\ \A k \in 0..(NConnections - 1) : Contiguous(k)

C1_Witness ==
  /\ Joined
  /\ Len(table) = 3 * NConnections
  /\ \A s \in Sessions : conns[s].st = "open" /\ ~conns[s].in_transaction


\* The connection is bound to a real (registry) lock.
RealLock(s) == conns[s].lock \in LockIds

SameLock(s1, s2) == RealLock(s1) /\ conns[s1].lock = conns[s2].lock

\* C2 (as claimed): with lock_transactions on, no thread is granted the lock
\* for a connection B (it is past acquire, about to run B's statement, B not in
\* a transaction) while a different connection A on the same lock has an open
\* transaction, whichever threads drive A and B.
C2_NoGrantToOtherSession ==
  \A t \in AllThreads, A, B \in Sessions :
    ~ /\ opts.lock_transactions
      /\ A # B
      /\ SameLock(A, B)
      /\ conns[A].in_transaction
      /\ pc[t] = "body" /\ cur[t].conn = B
      /\ ~conns[B].in_transaction

\* While connection s has an open transaction its creator holds the lock.
HeldAcross(s) ==
  conns[s].in_transaction /\ RealLock(s) =>
    /\ rlock[conns[s].lock].owner = conns[s].creator
    /\ rlock[conns[s].lock].count >= 1

\* No other connection on the lock is in a transaction or inside a statement.
AloneInTransaction(s) ==
  \A s2 \in Sessions \ {s} :
    conns[s].in_transaction /\ SameLock(s, s2) =>
      /\ ~conns[s2].in_transaction
      /\ pc[conns[s2].creator] \notin {"body", "exit"}

\* A step taken while s has an open transaction leaves its lock as it is.
LockKept(s) ==
  conns[s].in_transaction /\ RealLock(s) =>
    rlock'[conns[s].lock] = rlock[conns[s].lock]

\* C3: with lock_transactions on and every connection driven by its own
\* thread, a connection holds the lock of its file from the statement that
\* opens its transaction to the one that ends it: while the transaction is open
\* the creator owns the lock, no step (no enter, no exit of a statement or of a
\* with block) changes the lock's owner or depth, so the release can only come
\* in the exit of the call that ended the transaction; and no other connection
\* on the file is in a transaction or inside a statement meanwhile.
C3_LockHeldAcrossTransaction ==
  /\ [](opts.lock_transactions =>
          \A s \in Sessions : HeldAcross(s) /\ AloneInTransaction(s))
  /\ [][opts.lock_transactions => \A s \in Sessions : LockKept(s)]_vars

\* A statement was entered with the transaction already open (acquire
\* skipped), its exit is next, and the other thread waits for the lock.
C3_Witness ==
  /\ opts.lock_transactions
  /\ conns[1].in_transaction /\ conns[1].was_in_transaction /\ RealLock(1)
  /\ pc[1] = "exit"
  /\ pc[2] = "acquire" /\ SameLock(1, 2)
  /\ rlock[conns[1].lock] = [owner |-> 1, count |-> 1]


\* C4: with lock_transactions on and a positive lock_timeout, a thread that
\* stops waiting in an acquire it cannot be granted (the lock is with another
\* thread) does so by LockTimeoutError carrying the failing connection; the
\* call goes no further (no sqlite3 call, no __exit__: the thread is idle
\* again), and the lock, the connections and the database are as before.
C4_TimeoutAbortsAttempt ==
  [][\A t \in AllThreads :
       /\ opts.lock_transactions /\ opts.lock_timeout > 0
       /\ pc[t] = "acquire" /\ pc'[t] # "acquire"
       /\ ~AcquireSucceeds(conns[cur[t].conn].lock, t)
       => /\ exc' = Exc(t, "LockTimeoutError", cur[t].conn)
          /\ pc'[t] = "idle" /\ cur'[t] = NoCur
          /\ UNCHANGED << rlock, conns, scopes, pending, writer, table >>]_vars

\* The second connection's attempt has just failed while the first holds the
\* lock across its open transaction.
C4_Witness ==
  /\ opts.lock_transactions /\ opts.lock_timeout > 0
  /\ exc = Exc(2, "LockTimeoutError", 2)
  /\ pc[2] = "idle"
  /\ conns[1].in_transaction /\ pc[1] = "idle" /\ SameLock(1, 2)
  /\ rlock[conns[1].lock] = [owner |-> 1, count |-> 1]

\* How many times thread t holds lock l.
Holds(t, l) == IF rlock[l].owner = t THEN rlock[l].count ELSE 0

\* The with blocks thread t has open, plus the wrapped method it is inside.
Depth(t) == Len(scopes[t]) + (IF pc[t] \in {"body", "exit"} THEN 1 ELSE 0)

Quiet(t) == pc[t] = "idle" /\ scopes[t] = << >>

\* C5: with lock_transactions off and every connection driven by its own
\* thread, every wrapped method and every with block takes the lock on entry
\* and gives it back on exit whatever the transaction state: a thread holds the
\* lock exactly once per with block it has open and per method it is inside,
\* so not at all between calls, an open transaction or not.  Hence an acquire
\* is granted whenever the other threads are between calls, and a
\* LockTimeoutError is only ever raised while another thread is inside a call
\* or a with block, never because of another connection's open transaction.
C5_StatementLockOnly ==
  ~opts.lock_transactions =>
    /\ \A s \in Sessions :
         RealLock(s) => Holds(conns[s].creator, conns[s].lock) = Depth(conns[s].creator)
    /\ \A t \in AllThreads :
         pc[t] = "acquire" /\ (\A t2 \in AllThreads \ {t} : Quiet(t2))
           => AcquireSucceeds(conns[cur[t].conn].lock, t)
    /\ exc.type = "LockTimeoutError" =>
         \E t2 \in AllThreads \ {exc.thread} : ~Quiet(t2)

\* Both connections to the file are in a transaction, between calls, with a
\* bounded timeout, and the lock is free.
C5_Witness ==
  /\ ~opts.lock_transactions /\ opts.lock_timeout > 0
  /\ conns[1].in_transaction /\ conns[2].in_transaction /\ SameLock(1, 2)
  /\ Quiet(1) /\ Quiet(2)
  /\ rlock[conns[1].lock] = Unlocked


\* Keys the registry has a lock for, and keys of the open file connections.
RegistryKeys == {p \in DOMAIN CONNECTION_LOCKS : CONNECTION_LOCKS[p] # NoLock}

OpenKeys ==
  {conns[s].path : s \in {x \in Sessions : conns[x].st = "open"
                                             /\ conns[x].path # MemoryPath}}

\* C6 (as claimed): the registry's keys are exactly the keys with at least one
\* open connection; the entry goes when the last connection of a key closes.
C6_RegistryEvicted == RegistryKeys = OpenKeys

\* C7: a constructed connection to a file has the lock the registry holds for
\* its path (so the registry has an entry for the key of every open connection
\* and all connections of a key share one lock object), however the
\* constructors of several threads interleave, and its lock never changes
\* afterwards.
C7_OneLockPerKey ==
  /\ [](\A s \in Sessions :
          conns[s].st = "open" /\ conns[s].path # MemoryPath =>
            /\ conns[s].lock \in LockIds
            /\ CONNECTION_LOCKS[conns[s].path] = conns[s].lock)
  /\ [][\A s \in Sessions :
          conns[s].st \in {"open", "closed"} => conns'[s].lock = conns[s].lock]_vars

\* Two connections to the file, opened by different threads, are open.
C7_Witness ==
  /\ conns[1].st = "open" /\ conns[2].st = "open"
  /\ conns[1].path = FilePath /\ conns[2].path = FilePath
  /\ conns[1].creator # conns[2].creator
  /\ conns[1].lock = conns[2].lock /\ conns[1].lock \in LockIds

OnMemory(s) == conns[s].st # "none" /\ conns[s].path = MemoryPath

\* C8: a ':memory:' connection has a FakeLock and its constructor never goes
\* to the registry (no DICT_LOCK, no entry for ':memory:'; in a run with only
\* ':memory:' connections the registry and every lock stay untouched); an
\* acquire for it is always granted at once, whatever other connections hold,
\* and no LockTimeoutError is ever raised for it.
C8_EphemeralNeverLocks ==
  /\ [](/\ CONNECTION_LOCKS[MemoryPath] = NoLock
        /\ \A s \in Sessions :
             OnMemory(s) => conns[s].lock = FakeLock /\ conns[s].st # "init"
        /\ \A t \in AllThreads :
             pc[t] = "acquire" /\ OnMemory(cur[t].conn) =>
               /\ AcquireSucceeds(conns[cur[t].conn].lock, t)
               /\ ~TimeoutRejected(conns[cur[t].conn].lock, opts.lock_timeout)
        /\ exc.type = "LockTimeoutError" => ~OnMemory(exc.connection))
  /\ [][(\A s \in Sessions : conns'[s].st # "none" => conns'[s].path = MemoryPath)
          => UNCHANGED << CONNECTION_LOCKS, DICT_LOCK, rlock >>]_vars

\* Two ':memory:' connections of different threads hold open transactions at
\* the same time, with lock_transactions on and a bounded timeout.
C8_Witness ==
  /\ opts.lock_transactions /\ opts.lock_timeout > 0
  /\ OnMemory(1) /\ OnMemory(2)
  /\ conns[1].creator # conns[2].creator
  /\ conns[1].in_transaction /\ conns[2].in_transaction

\* C9 (as claimed): no LockTimeoutError is raised for a connection because the
\* lock is still with the thread of another connection that was closed (that
\* thread being between calls, outside every with block).
C9_ClosedSessionFreesLock ==
  \A A \in Sessions :
    ~ /\ exc.type = "LockTimeoutError"
      /\ exc.connection # A
      /\ conns[A].st = "closed"
      /\ SameLock(A, exc.connection)
      /\ rlock[conns[A].lock].owner = conns[A].creator
      /\ Quiet(conns[A].creator)

\* C10 (as claimed): with one file connection shared by the threads (legacy
\* isolation level, so a statement opens the transaction implicitly), no
\* release fails with RuntimeError because the lock belongs to another thread
\* (one that is between calls).
C10_ReleaseByOtherThread ==
  ~ /\ exc.type = "RuntimeError"
    /\ opts.lock_transactions /\ opts.isolation_level = "legacy"
    /\ conns[1].st = "open" /\ conns[1].path = FilePath /\ conns[2].st = "none"
    /\ rlock[conns[1].lock].owner \notin {NoThread, exc.thread}
    /\ Quiet(rlock[conns[1].lock].owner)


\* ------------------------------------------- non-positive lock_timeout
\* lock_timeout values that are not positive: zero, the default -1, and
\* another negative number.
NonPositiveTimeouts == {0, -1, -2}

\* Connections opened with a non-positive lock_timeout, each used by the
\* thread that opened it.
InitTimeouts ==
  /\ InitCommon
  /\ opts \in [lock_transactions : BOOLEAN, lock_timeout : NonPositiveTimeouts,
               isolation_level : {"None"}]
  /\ prog = [t \in AllThreads |-> << >>]

SpecTimeouts == InitTimeouts /\ [][NextOwn]_vars

\* C11 (as claimed): with a lock_timeout that is not positive, a call never
\* fails in acquisition: no LockTimeoutError and no other error (ValueError)
\* is raised by acquire.
C11_NonPositiveWaits ==
  opts.lock_timeout <= 0 => exc.type \notin {"LockTimeoutError", "ValueError"}


\* C12: close leaves the lock untouched: the step in which a connection
\* becomes closed changes no lock's owner or depth (nor the registry), also
\* when the closing connection has an open transaction and holds the lock.
C12_CloseKeepsLock ==
  [][(\E s \in Sessions : conns[s].st = "open" /\ conns'[s].st = "closed")
       => UNCHANGED << rlock, DICT_LOCK, CONNECTION_LOCKS >>]_vars

\* The first connection was closed while it held the lock across its
\* transaction: it is closed, its thread is between calls and still holds the
\* lock.
C12_Witness ==
  /\ opts.lock_transactions
  /\ conns[1].st = "closed" /\ RealLock(1)
  /\ Quiet(1)
  /\ rlock[conns[1].lock] = [owner |-> 1, count |-> 1]
  /\ conns[2].st = "none"


\* C13: closed is a one-way latch and close is idempotent: nothing about a
\* closed connection changes any more (it stays closed, a later close included);
\* no wrapped method and no with block is entered on a closed connection (no
\* thread gets to acquire or to the sqlite3 call, no scope is opened); the
\* ProgrammingError such a call raises comes before acquire and leaves every
\* lock, connection and scope as it was.
C13_ClosedLatch ==
  /\ [][\A s \in Sessions : conns[s].st = "closed" => conns'[s] = conns[s]]_vars
  /\ [][\A t \in AllThreads :
          /\ pc[t] = "idle" /\ pc'[t] \in {"acquire", "body"}
               => conns[cur'[t].conn].st = "open"
          /\ Len(scopes'[t]) > Len(scopes[t])
               => conns[scopes'[t][Len(scopes'[t])]].st = "open"]_vars
  /\ [][exc'.type = "ProgrammingError" /\ pc[exc'.thread] = "idle"
          => UNCHANGED << rlock, conns, scopes, DICT_LOCK, CONNECTION_LOCKS >>]_vars

\* A call on the closed first connection has just failed while the other
\* thread holds the lock of the file.
C13_Witness ==
  /\ exc = Exc(1, "ProgrammingError", NoSession)
  /\ conns[1].st = "closed" /\ pc[1] = "idle"
  /\ SameLock(1, 2)
  /\ rlock[conns[1].lock].owner = 2


\* The call of thread t took the lock in its __enter__ (was_in_transaction
\* holds in_transaction as __enter__ saw it).
EnterAcquired(t) ==
  ~conns[cur[t].conn].was_in_transaction \/ ~opts.lock_transactions

\* C14: with every connection driven by its own thread, whatever the sqlite3
\* call of a wrapped method does (raising included), __exit__ is what comes
\* next; when the call raised, the exception that reaches the caller is the
\* one sqlite3 raised, and if no transaction is open then and __enter__ had
\* taken the lock, __exit__ gives that acquisition back (the thread holds the
\* lock once less: as before the call).
C14_ExitRunsOnError ==
  /\ [][\A t \in AllThreads :
          pc[t] = "body" /\ pc'[t] # "body" => pc'[t] = "exit"]_vars
  /\ [][\A t \in AllThreads :
          pc[t] = "exit" /\ cur[t].raised # "None" /\ pc'[t] # "exit" =>
            LET s == cur[t].conn
                l == conns[s].lock
            IN /\ exc' = Exc(t, cur[t].raised, NoSession)
               /\ ~conns[s].in_transaction /\ RealLock(s) /\ EnterAcquired(t) =>
                    /\ rlock[l].owner = t
                    /\ rlock'[l] = IF rlock[l].count = 1 THEN Unlocked
                                   ELSE [owner |-> t, count |-> rlock[l].count - 1]]_vars

\* A statement of the first connection has just failed in sqlite3 outside a
\* transaction, and the lock is free again.
C14_Witness ==
  /\ opts.lock_transactions
  /\ exc = Exc(1, "OperationalError", NoSession)
  /\ pc[1] = "idle"
  /\ conns[1].st = "open" /\ ~conns[1].in_transaction /\ RealLock(1)
  /\ rlock[conns[1].lock] = Unlocked


\* ------------------------------------------------- test_close_in_with
\* test_close_in_with, for every thread and with every choice of options: a
\* connection is opened, `with conn:` is entered one or more times, the
\* connection is closed in the innermost block, and the blocks are left.
NextCloseInWith ==
  \E t \in AllThreads :
    \/ \E path \in Paths : Connect(t, t, path)
    \/ DictGet(t)
    \/ DictSet(t)
    \/ conns[t].st = "open" /\ Call(t, t, "with")
    \/ Acquire(t)
    \/ Timeout(t)
    \/ scopes[t] # << >> /\ Close(t, t)
    \/ conns[t].st = "closed" /\ LeaveScope(t)

SpecCloseInWith == Init /\ [][NextCloseInWith]_vars

\* C15: in test_close_in_with (with blocks entered with no transaction open,
\* close in the innermost one) every exit of a with block raises nothing and
\* releases the lock exactly once, so a closed connection's thread holds the
\* lock once per block still open, and not at all after the outermost exit.
C15_CloseInWith ==
  /\ [][\A t \in AllThreads :
          Len(scopes'[t]) < Len(scopes[t]) =>
            LET s == scopes[t][Len(scopes[t])]
                l == conns[s].lock
            IN /\ exc' = NoExc
               /\ RealLock(s) =>
                    /\ rlock[l].owner = t
                    /\ rlock'[l] = IF rlock[l].count = 1 THEN Unlocked
                                   ELSE [owner |-> t, count |-> rlock[l].count - 1]]_vars
  /\ [](\A t \in AllThreads :
          conns[t].st = "closed" /\ RealLock(t) =>
            Holds(t, conns[t].lock) = Len(scopes[t]))

\* The first connection was closed inside its with blocks, every block has
\* been left, and the lock is free.
C15_Witness ==
  /\ opts.lock_transactions
  /\ conns[1].st = "closed" /\ RealLock(1)
  /\ scopes[1] = << >> /\ pc[1] = "idle"
  /\ rlock[conns[1].lock] = Unlocked
  /\ exc = NoExc


\* C16: a constructor whose sqlite3.connect raises (a path in a directory that
\* does not exist) leaves no connection and no registry entry for its path,
\* and the step in which it fails, raising sqlite3's OperationalError to the
\* caller, changes nothing in the registry, the locks and the connections.
C16_FailedConnect ==
  /\ [](/\ CONNECTION_LOCKS[BadPath] = NoLock
        /\ \A s \in Sessions : conns[s].path # BadPath)
  /\ [][exc'.type = "OperationalError" /\ pc[exc'.thread] = "idle"
          => UNCHANGED << CONNECTION_LOCKS, DICT_LOCK, rlock, conns >>]_vars

\* The first thread's connect has just failed, no connection exists.
C16_Witness ==
  /\ exc = Exc(1, "OperationalError", NoSession)
  /\ pc[1] = "idle"
  /\ \A s \in Sessions : conns[s].st = "none"
  /\ RegistryKeys = {}


\* Only the first connection exists, used by its own thread, with
\* lock_transactions on.
OneSession ==
  /\ opts.lock_transactions
  /\ conns[1].st = "open" /\ RealLock(1)
  /\ conns[2].st = "none"

\* C17 (as claimed): with lock_transactions on, one connection used by one
\* thread never has a release fail: no __exit__ releases a lock its thread
\* does not hold (RuntimeError).
C17_NoReleaseUnheld == ~(OneSession /\ exc = Exc(1, "RuntimeError", NoSession))

\* C18 (as claimed): with lock_transactions on, one connection used by one
\* thread holds the lock zero times whenever it is outside every with block,
\* between calls and not in a transaction.
C18_BalancedWhenQuiet ==
  OneSession /\ Quiet(1) /\ ~conns[1].in_transaction
    => rlock[conns[1].lock] = Unlocked


\* C19: DICT_LOCK is held only inside the registry block of a constructor: its
\* holder is at the lookup/insert, never waiting for, holding on to or giving
\* back a connection's lock in that time (taking and leaving DICT_LOCK changes
\* no RLock); a constructor waits for nothing but DICT_LOCK, so it is never
\* held up by a transaction another connection has open.
C19_RegistryMutexShort ==
  /\ [](\A t \in AllThreads :
          /\ DICT_LOCK = t => pc[t] = "dict_set"
          /\ pc[t] = "dict_set" => DICT_LOCK = t /\ ENABLED DictSet(t)
          /\ pc[t] = "dict_lock" /\ DICT_LOCK = NoThread => ENABLED DictGet(t))
  /\ [][DICT_LOCK' # DICT_LOCK => rlock' = rlock]_vars

\* The first thread is inside the registry block for the file while the second
\* connection holds the file's lock across its open transaction.
C19_Witness ==
  /\ opts.lock_transactions
  /\ pc[1] = "dict_set" /\ DICT_LOCK = 1
  /\ conns[1].path = FilePath
  /\ conns[2].st = "open" /\ conns[2].path = FilePath
  /\ conns[2].in_transaction
  /\ rlock[conns[2].lock] = [owner |-> 2, count |-> 1]


\* ------------------------------------------------------------ progress
\* Connections to the one file, each used by the thread that opened it, with
\* lock_transactions on and no lock_timeout; no connection is closed.
NextLive ==
  \E t \in AllThreads :
    \/ Connect(t, t, FilePath)
    \/ DictGet(t)
    \/ DictSet(t)
    \/ \E kind \in {"method", "with"} : Call(t, t, kind)
    \/ Acquire(t)
    \/ \E op \in FreeOps : Body(t, op)
    \/ Exit(t)
    \/ LeaveScope(t)

\* A thread inside a constructor or a wrapped method goes on running; a thread
\* waiting in acquire gets the lock if the lock is free again and again.  What
\* the caller does next (which call, when a block is left) is not constrained.
Fairness ==
  \A t \in AllThreads :
    /\ WF_vars(DictGet(t))
    /\ WF_vars(DictSet(t))
    /\ SF_vars(Acquire(t))
    /\ WF_vars(\E op \in FreeOps : Body(t, op))
    /\ WF_vars(Exit(t))

InitLive ==
  /\ InitCommon
  /\ opts = TestOptions
  /\ prog = [t \in AllThreads |-> << >>]

SpecLive == InitLive /\ [][NextLive]_vars /\ Fairness

\* C20 (as claimed): if every connection is again and again outside a
\* transaction (what it opens it commits or rolls back) and every thread again
\* and again outside every with block, a thread waiting in acquire is
\* eventually granted the lock.
C20_NoSessionWaitsForever ==
  (/\ \A s \in Sessions : []<>(~conns[s].in_transaction)
   /\ \A t \in AllThreads : []<>(scopes[t] = << >>))
  => \A t \in AllThreads : (pc[t] = "acquire") ~> (pc[t] # "acquire")

====
